---------------------------- MODULE Spec2Model ----------------------------
(***************************************************************************)
(* PDF_Compress.py: PDFCompressorPython.compress_all and                   *)
(* PDFCompressorPython.compress_pdf_pymupdf.                               *)
(*                                                                         *)
(* One main thread runs compress_all: it lists the input directory,       *)
(* submits one task per file to a ThreadPoolExecutor(max_workers), reduces *)
(* the results in the as_completed loop, leaves the `with` block (which    *)
(* joins the pool) and prints the summary.  The pool's threads take work   *)
(* items from a FIFO queue and run compress_pdf_pymupdf.                   *)
(*                                                                         *)
(* Sizes.  get_file_size returns bytes / 2^20 as a float.  Such a value is *)
(* an integer multiple of 2^-20, and so is every sum of them; floats hold  *)
(* these exactly while the byte count stays below 2^53.  The model carries *)
(* a size as that integer multiple, so += on totals is exact integer       *)
(* addition.  A percentage (1 - c/o) * 100 is carried as the normalised    *)
(* fraction <<numerator, denominator>>.                                    *)
(***************************************************************************)
EXTENDS Integers, Sequences, FiniteSets, TLC

\* Bounds of the model.
MaxFiles == 2
MaxWorkers == 2
MaxSize == 2

VARIABLES
    PYMUPDF_AVAILABLE,        \* line 57/59
    PIL_AVAILABLE,            \* line 64/66
    max_workers,              \* argument of compress_all
    input_dir,                \* the *.pdf files of self.input_dir, in listing order
    pdf_files,                \* line 136
    pc,                       \* position of the main thread in compress_all
    next_submit,              \* index of the submit loop, line 155
    work_queue,               \* the executor's queue of work items
    num_threads,              \* len(executor._threads): threads started so far
    task_state,               \* per file: NotCreated, Pending, Running, Completed
    future,                   \* per file: what the task's future holds
    output_dir,               \* per file: the output file written by doc.save
    call,                     \* per file: how the library call ended
    yielded,                  \* futures as_completed has yielded, in that order
    total_original_size,      \* line 146
    total_compressed_size,    \* line 147
    successful_compressions,  \* line 148
    failed_compressions,      \* line 149
    overall_compression,      \* line 179
    summary_emitted,          \* times the summary block (181-191) was logged
    no_files_logged           \* the error of line 139 was logged

vars == << PYMUPDF_AVAILABLE, PIL_AVAILABLE, max_workers, input_dir, pdf_files,
           pc, next_submit, work_queue, num_threads, task_state, future,
           output_dir, call, yielded, total_original_size,
           total_compressed_size, successful_compressions,
           failed_compressions, overall_compression, summary_emitted,
           no_files_logged >>

-----------------------------------------------------------------------------
\* Fractions.

Abs(n) == IF n < 0 THEN -n ELSE n

RECURSIVE GCD(_, _)
GCD(a, b) == IF b = 0 THEN a ELSE GCD(b, a % b)

\* <<n, d>> with d > 0, in lowest terms.
Norm(n, d) ==
    LET g == GCD(Abs(n), d) IN << n \div g, d \div g >>

\* The literal 0 of lines 119 and 179.
Zero == << 0, 1 >>

\* What a float division by zero gives: the exception, as a value no
\* fraction equals.
ZeroDivisionError == << 1, 0 >>

\* (1 - compressed / original) * 100, lines 103 and 179.
Percent(compressed, original) ==
    IF original = 0 THEN ZeroDivisionError
    ELSE Norm((original - compressed) * 100, original)

-----------------------------------------------------------------------------
\* Files.

NoFile == [exists |-> FALSE, size |-> 0]

File(s) == [exists |-> TRUE, size |-> s]

\* A listed file is there with some size, or is gone by the time its task runs.
InputFiles == {NoFile} \cup {File(s) : s \in 0..MaxSize}

\* doc.save writes a non-empty file, smaller or larger than its input.
OutputSizes == 1..MaxSize

RECURSIVE SeqsUpTo(_, _)
SeqsUpTo(S, n) ==
    IF n = 0 THEN {<< >>}
    ELSE LET shorter == SeqsUpTo(S, n - 1)
         IN shorter \cup {Append(s, x) : s \in {t \in shorter : Len(t) = n - 1}, x \in S}

get_file_size(file) == file.size

-----------------------------------------------------------------------------
\* compress_pdf_pymupdf.

NoFuture == [kind |-> "pending"]

\* What fitz.open / doc.save do with an input: raise, or write the output.
LibRaises == [ok |-> FALSE, out |-> 0]

LibSaves(out) == [ok |-> TRUE, out |-> out]

LibOutcomes(input) ==
    IF input.exists THEN {LibRaises} \cup {LibSaves(c) : c \in OutputSizes}
    ELSE {LibRaises}

\* The body of the try block, lines 87-111, with the division of line 103
\* guarded the way line 179 guards its own.
TryBodyGuarded(input, lib) ==
    IF ~lib.ok THEN [raised |-> TRUE, error |-> "FitzError"]
    ELSE IF ~input.exists THEN [raised |-> TRUE, error |-> "FileNotFoundError"]
    ELSE LET original_size == get_file_size(input)
             compressed_size == lib.out
             compression_ratio ==
                 IF original_size > 0 THEN Percent(compressed_size, original_size)
                 ELSE Zero
         IN [raised |-> FALSE,
             value |-> [kind |-> "result",
                        success |-> TRUE,
                        original_size |-> original_size,
                        compressed_size |-> compressed_size,
                        compression_ratio |-> compression_ratio,
                        error |-> "None"]]

\* The body of the try block, lines 87-111: the library call, the two size
\* measurements, the ratio, the success record.  Any of the first three may
\* raise.
TryBody(input, lib) ==
    IF ~lib.ok THEN [raised |-> TRUE, error |-> "FitzError"]
    ELSE IF ~input.exists THEN [raised |-> TRUE, error |-> "FileNotFoundError"]
    ELSE LET original_size == get_file_size(input)
             compressed_size == lib.out
             compression_ratio == Percent(compressed_size, original_size)
         IN IF compression_ratio = ZeroDivisionError
            THEN [raised |-> TRUE, error |-> "ZeroDivisionError"]
            ELSE [raised |-> FALSE,
                  value |-> [kind |-> "result",
                             success |-> TRUE,
                             original_size |-> original_size,
                             compressed_size |-> compressed_size,
                             compression_ratio |-> compression_ratio,
                             error |-> "None"]]

\* The except clause, lines 113-121.
ExceptClause(input, error) ==
    [kind |-> "result",
     success |-> FALSE,
     original_size |-> IF input.exists THEN get_file_size(input) ELSE 0,
     compressed_size |-> 0,
     compression_ratio |-> Zero,
     error |-> error]

\* Without the except clause the exception ends the work item and is stored
\* in the future.
compress_pdf_pymupdf_uncaught(input, lib) ==
    LET t == TryBody(input, lib)
    IN IF t.raised THEN [kind |-> "exception", error |-> t.error] ELSE t.value

compress_pdf_pymupdf(input, lib) ==
    LET t == TryBody(input, lib)
    IN IF t.raised THEN ExceptClause(input, t.error) ELSE t.value

-----------------------------------------------------------------------------
\* ThreadPoolExecutor, as used on lines 152-163.

\* submit starts a new thread whatever the number already started.
AdjustThreadCountUnbounded(n, maxw) == n + 1

\* submit starts a new thread while fewer than max_workers exist.  (An
\* executor that first hands the item to an idle thread starts fewer threads;
\* its runs are runs of this one in which the extra threads take no item.)
AdjustThreadCount(n, maxw) == IF n < maxw THEN n + 1 ELSE n

\* A thread taking the newest work item.
DequeueNewest(q) == [item |-> q[Len(q)], rest |-> SubSeq(q, 1, Len(q) - 1)]

\* A thread takes the oldest work item of the queue.
Dequeue(q) == [item |-> Head(q), rest |-> Tail(q)]

Files == 1..Len(input_dir)

\* Futures as_completed has yielded.
Yielded == {yielded[i] : i \in 1..Len(yielded)}

\* Tasks a thread is executing: each is run by one thread, and a thread runs
\* one task at a time, so the other num_threads - Cardinality(Running)
\* threads are idle, waiting on the queue.
Running == {f \in Files : task_state[f] = "Running"}

-----------------------------------------------------------------------------
\* compress_all, the pieces the main thread computes.

\* Lines 138-140 left out: the run goes on with an empty list.
AfterListingUnchecked(files) == "submit"

\* Lines 138-140: return when no file was listed.
AfterListing(files) == IF files = << >> THEN "done" ELSE "submit"

Counters == [successful_compressions |-> successful_compressions,
             failed_compressions |-> failed_compressions,
             total_original_size |-> total_original_size,
             total_compressed_size |-> total_compressed_size]

\* The loop body with the byte totals added outside the if.
ReduceResultAllSizes(c, result) ==
    IF result.success
    THEN [c EXCEPT !.successful_compressions = @ + 1,
                   !.total_original_size = @ + result.original_size,
                   !.total_compressed_size = @ + result.compressed_size]
    ELSE [c EXCEPT !.failed_compressions = @ + 1,
                   !.total_original_size = @ + result.original_size,
                   !.total_compressed_size = @ + result.compressed_size]

\* The loop body with = for += on the byte totals.
ReduceResultAssign(c, result) ==
    IF result.success
    THEN [c EXCEPT !.successful_compressions = @ + 1,
                   !.total_original_size = result.original_size,
                   !.total_compressed_size = result.compressed_size]
    ELSE [c EXCEPT !.failed_compressions = @ + 1]

\* The loop body with the else branch counting nothing.
ReduceResultNoFailCount(c, result) ==
    IF result.success
    THEN [c EXCEPT !.successful_compressions = @ + 1,
                   !.total_original_size = @ + result.original_size,
                   !.total_compressed_size = @ + result.compressed_size]
    ELSE c

\* Lines 165-176, the body of the as_completed loop.
ReduceResult(c, result) ==
    IF result.success
    THEN [c EXCEPT !.successful_compressions = @ + 1,
                   !.total_original_size = @ + result.original_size,
                   !.total_compressed_size = @ + result.compressed_size]
    ELSE [c EXCEPT !.failed_compressions = @ + 1]

\* The loop left after the first result.
CollectDoneEarly(seen, files) == Len(seen) >= 1

\* as_completed is exhausted when it has yielded every future.
CollectDone(seen, files) == Len(seen) = Len(files)

\* Line 179 without its condition.
OverallCompressionUnguarded(compressed, original) == Percent(compressed, original)

\* Line 179.
OverallCompression(compressed, original) ==
    IF original > 0 THEN Percent(compressed, original) ELSE Zero

-----------------------------------------------------------------------------
Init ==
    /\ PYMUPDF_AVAILABLE \in BOOLEAN
    /\ PIL_AVAILABLE \in BOOLEAN
    /\ max_workers \in 1..MaxWorkers
    /\ input_dir \in SeqsUpTo(InputFiles, MaxFiles)
    /\ pdf_files = << >>
    /\ pc = "start"
    /\ next_submit = 1
    /\ work_queue = << >>
    /\ num_threads = 0
    /\ task_state = [f \in Files |-> "NotCreated"]
    /\ future = [f \in Files |-> NoFuture]
    /\ output_dir = [f \in Files |-> NoFile]
    /\ call = [f \in Files |-> "none"]
    /\ yielded = << >>
    /\ total_original_size = 0
    /\ total_compressed_size = 0
    /\ successful_compressions = 0
    /\ failed_compressions = 0
    /\ overall_compression = Zero
    /\ summary_emitted = 0
    /\ no_files_logged = FALSE

\* Lines 125-149: the capability checks, the listing, the empty-list return,
\* the counters.
CompressAllStart ==
    /\ pc = "start"
    /\ IF ~PYMUPDF_AVAILABLE \/ ~PIL_AVAILABLE
       THEN /\ pc' = "done"
            /\ UNCHANGED << pdf_files, no_files_logged >>
       ELSE /\ pdf_files' = input_dir
            /\ pc' = AfterListing(pdf_files')
            /\ no_files_logged' = (pc' = "done")
    /\ IF pc' = "done"
       THEN UNCHANGED << total_original_size, total_compressed_size,
                         successful_compressions, failed_compressions >>
       ELSE /\ total_original_size' = 0
            /\ total_compressed_size' = 0
            /\ successful_compressions' = 0
            /\ failed_compressions' = 0
    /\ UNCHANGED << PYMUPDF_AVAILABLE, PIL_AVAILABLE, max_workers, input_dir,
                    next_submit, work_queue, num_threads, task_state, future,
                    output_dir, call, yielded,
                    overall_compression, summary_emitted >>

\* Lines 155-158: one turn of the submit loop.
Submit ==
    /\ pc = "submit"
    /\ next_submit <= Len(pdf_files)
    /\ work_queue' = Append(work_queue, next_submit)
    /\ num_threads' = AdjustThreadCount(num_threads, max_workers)
    /\ task_state' = [task_state EXCEPT ![next_submit] = "Pending"]
    /\ next_submit' = next_submit + 1
    /\ pc' = IF next_submit = Len(pdf_files) THEN "collect" ELSE "submit"
    /\ UNCHANGED << PYMUPDF_AVAILABLE, PIL_AVAILABLE, max_workers, input_dir,
                    pdf_files, future, output_dir, call, yielded, total_original_size, total_compressed_size,
                    successful_compressions, failed_compressions,
                    overall_compression, summary_emitted, no_files_logged >>

\* Lines 161-176: as_completed yields a finished future not yielded before,
\* future.result() returns its result or raises its exception, the result is
\* reduced.
Collect(f) ==
    /\ pc = "collect"
    /\ f \notin Yielded
    /\ future[f].kind # "pending"
    /\ yielded' = Append(yielded, f)
    /\ LET c == IF future[f].kind = "exception" THEN Counters
                ELSE ReduceResult(Counters, future[f])
       IN /\ successful_compressions' = c.successful_compressions
          /\ failed_compressions' = c.failed_compressions
          /\ total_original_size' = c.total_original_size
          /\ total_compressed_size' = c.total_compressed_size
    /\ pc' = IF future[f].kind = "exception" THEN "aborted"
             ELSE IF CollectDone(yielded', pdf_files) THEN "shutdown"
             ELSE "collect"
    /\ UNCHANGED << PYMUPDF_AVAILABLE, PIL_AVAILABLE, max_workers, input_dir,
                    pdf_files, next_submit, work_queue, num_threads, task_state,
                    future, output_dir, call, overall_compression, summary_emitted, no_files_logged >>

\* Line 152, leaving the with block: shutdown(wait=True) returns when the
\* queue is drained and every thread has finished its work item.
ExecutorShutdown ==
    /\ pc = "shutdown"
    /\ work_queue = << >>
    /\ Running = {}
    /\ pc' = "summary"
    /\ UNCHANGED << PYMUPDF_AVAILABLE, PIL_AVAILABLE, max_workers, input_dir,
                    pdf_files, next_submit, work_queue, num_threads, task_state,
                    future, output_dir, call, yielded,
                    total_original_size, total_compressed_size,
                    successful_compressions, failed_compressions,
                    overall_compression, summary_emitted, no_files_logged >>

\* Lines 178-191: the overall ratio and the summary block.
Summary ==
    /\ pc = "summary"
    /\ overall_compression' =
           OverallCompression(total_compressed_size, total_original_size)
    /\ IF overall_compression' = ZeroDivisionError
       THEN /\ pc' = "aborted"
            /\ UNCHANGED summary_emitted
       ELSE /\ pc' = "done"
            /\ summary_emitted' = summary_emitted + 1
    /\ UNCHANGED << PYMUPDF_AVAILABLE, PIL_AVAILABLE, max_workers, input_dir,
                    pdf_files, next_submit, work_queue, num_threads, task_state,
                    future, output_dir, call, yielded,
                    total_original_size, total_compressed_size,
                    successful_compressions, failed_compressions,
                    no_files_logged >>

\* An idle pool thread takes a work item and marks its future running.
WorkerGet ==
    /\ Cardinality(Running) < num_threads
    /\ work_queue # << >>
    /\ LET d == Dequeue(work_queue)
       IN /\ work_queue' = d.rest
          /\ task_state' = [task_state EXCEPT ![d.item] = "Running"]
    /\ UNCHANGED << PYMUPDF_AVAILABLE, PIL_AVAILABLE, max_workers, input_dir,
                    pdf_files, pc, next_submit, num_threads, future,
                    output_dir, call, yielded,
                    total_original_size, total_compressed_size,
                    successful_compressions, failed_compressions,
                    overall_compression, summary_emitted, no_files_logged >>

\* The thread running task f executes compress_pdf_pymupdf (lines 84-121) and
\* stores what it returned, or the exception it raised, in the future.
WorkerRun(f) ==
    /\ f \in Running
    /\ \E lib \in LibOutcomes(pdf_files[f]) :
         /\ future' = [future EXCEPT
                         ![f] = compress_pdf_pymupdf(pdf_files[f], lib)]
         /\ output_dir' = [output_dir EXCEPT
                             ![f] = IF lib.ok THEN File(lib.out) ELSE NoFile]
         /\ call' = [call EXCEPT ![f] = IF lib.ok THEN "saved" ELSE "raised"]
    /\ task_state' = [task_state EXCEPT ![f] = "Completed"]
    /\ UNCHANGED << PYMUPDF_AVAILABLE, PIL_AVAILABLE, max_workers, input_dir,
                    pdf_files, pc, next_submit, work_queue, num_threads,
                    yielded, total_original_size, total_compressed_size,
                    successful_compressions, failed_compressions,
                    overall_compression, summary_emitted, no_files_logged >>

MainThread ==
    \/ CompressAllStart
    \/ Submit
    \/ \E f \in Files : Collect(f)
    \/ ExecutorShutdown
    \/ Summary

Next == MainThread \/ WorkerGet \/ \E f \in Files : WorkerRun(f)

Spec == Init /\ [][Next]_vars

\* The threads are scheduled and every library call returns: while some
\* thread can take a step, a step is taken.
FairSpec == Spec /\ WF_vars(Next)

-----------------------------------------------------------------------------
\* Helpers of the properties.

RECURSIVE SumOriginal(_)
SumOriginal(S) ==
    IF S = {} THEN 0
    ELSE LET f == CHOOSE x \in S : TRUE
         IN future[f].original_size + SumOriginal(S \ {f})

RECURSIVE SumCompressed(_)
SumCompressed(S) ==
    IF S = {} THEN 0
    ELSE LET f == CHOOSE x \in S : TRUE
         IN future[f].compressed_size + SumCompressed(S \ {f})

ReducedOk == {f \in Yielded : future[f].kind = "result" /\ future[f].success}

ReducedFailed == {f \in Yielded : future[f].kind = "result" /\ ~future[f].success}

Occurrences(seq, x) == Cardinality({i \in 1..Len(seq) : seq[i] = x})

\* The counters of a run that reduces the results of files 1..n one after
\* the other, in listing order.
RECURSIVE SequentialCounters(_)
SequentialCounters(n) ==
    IF n = 0
    THEN [successful_compressions |-> 0, failed_compressions |-> 0,
          total_original_size |-> 0, total_compressed_size |-> 0]
    ELSE ReduceResult(SequentialCounters(n - 1), future[n])

AllResults == \A f \in Files : future[f].kind = "result"

-----------------------------------------------------------------------------
\* C1: a failing library call never aborts the run.  The failure becomes, in
\* the worker, a result with success = False and an error description; no
\* future holds an exception and the main thread is never aborted by one;
\* every file is attempted; and once a call has failed the run still reaches
\* the summary.
C1_SafetyPart ==
    /\ pc # "aborted"
    /\ \A f \in Files :
         /\ future[f].kind # "exception"
         /\ call[f] = "raised" =>
              /\ future[f].kind = "result"
              /\ ~future[f].success
              /\ future[f].error # "None"
    /\ summary_emitted = 1 => \A f \in Files : call[f] # "none"

C1_FailureNeverAborts ==
    /\ []C1_SafetyPart
    /\ (\E f \in Files : call[f] = "raised") ~> (summary_emitted = 1)

C1_Witness ==
    /\ summary_emitted = 1
    /\ call[1] = "raised"
    /\ Len(pdf_files) = 2
    /\ future[2].success

\* C2: every listed file yields exactly one result, each result is counted
\* once, and at the summary the number of listed files equals successes plus
\* failures.
C2_Counts ==
    /\ successful_compressions + failed_compressions = Len(yielded)
    /\ \A f \in Files : Occurrences(yielded, f) <= 1
    /\ summary_emitted = 1 =>
         /\ Len(pdf_files) = successful_compressions + failed_compressions
         /\ \A f \in Files :
              /\ call[f] # "none"
              /\ future[f].kind = "result"
              /\ Occurrences(yielded, f) = 1

\* A task that has run is not run again and its result is not replaced.
C2_RunOnce ==
    \A f \in Files :
      call[f] # "none" =>
        /\ call'[f] = call[f]
        /\ future'[f] = future[f]
        /\ task_state'[f] = "Completed"

C2_ProcessedIsSuccessesPlusFailures == []C2_Counts /\ [][C2_RunOnce]_vars

C2_Witness ==
    /\ summary_emitted = 1
    /\ successful_compressions = 1
    /\ failed_compressions = 1

\* C3: in every state the byte totals are the sums over the results reduced
\* so far with success = True; a failed result raises only the failure
\* count, whatever original_size it carries.
C3_TotalsOnlyFromSuccesses ==
    /\ total_original_size = SumOriginal(ReducedOk)
    /\ total_compressed_size = SumCompressed(ReducedOk)
    /\ successful_compressions = Cardinality(ReducedOk)
    /\ failed_compressions = Cardinality(ReducedFailed)

C3_Witness ==
    /\ \E f \in ReducedFailed : future[f].original_size > 0
    /\ ReducedOk # {}

\* C4: never more than max_workers calls are Running; the tasks beyond that
\* stay Pending in the queue.
C4_AtMostWorkersRunning ==
    /\ Cardinality(Running) <= max_workers
    /\ \A i \in 1..Len(work_queue) : task_state[work_queue[i]] = "Pending"

C4_Witness ==
    /\ Cardinality(Running) = max_workers
    /\ work_queue # << >>

\* C5: the summary does not depend on the order of completion or reduction:
\* it is the summary of a run reducing the same results in listing order.
C5_SummaryOrderIndependent ==
    (summary_emitted = 1 /\ AllResults) =>
      /\ Counters = SequentialCounters(Len(pdf_files))
      /\ overall_compression =
           OverallCompression(
               SequentialCounters(Len(pdf_files)).total_compressed_size,
               SequentialCounters(Len(pdf_files)).total_original_size)

C5_Witness ==
    /\ summary_emitted = 1
    /\ max_workers = 2
    /\ yielded = << 2, 1 >>
    /\ future[1].success
    /\ future[2].success
    /\ future[1].original_size # future[2].original_size

\* C6: a run that dispatches a task emits the summary eventually, once, and
\* not while a task is Pending or Running or a result is still to be reduced.
C6_SummarySafety ==
    /\ summary_emitted <= 1
    /\ summary_emitted = 1 =>
         \A f \in Files : task_state[f] = "Completed" /\ f \in Yielded

C6_SummaryOnceAfterAll ==
    /\ []C6_SummarySafety
    /\ (pc = "submit") ~> (summary_emitted = 1)
    /\ [][summary_emitted = 1 => summary_emitted' = 1]_vars

C6_Witness ==
    /\ summary_emitted = 1
    /\ Len(pdf_files) = 2
    /\ max_workers = 2

\* C7: with one worker at most one call is Running, a task starts only when
\* every task submitted before it has completed, and tasks complete in
\* submission order.
C7_OneAtATime ==
    max_workers = 1 =>
      /\ Cardinality(Running) <= 1
      /\ \A f, g \in Files :
           (g < f /\ task_state[f] \in {"Running", "Completed"})
              => task_state[g] = "Completed"

\* A step that completes task f finds every task submitted before f
\* completed.
C7_CompleteInOrder ==
    max_workers = 1 =>
      \A f \in Files :
        (task_state[f] # "Completed" /\ task_state'[f] = "Completed")
           => \A g \in 1..(f - 1) : task_state[g] = "Completed"

C7_OneWorkerSequential == []C7_OneAtATime /\ [][C7_CompleteInOrder]_vars

C7_Witness ==
    /\ max_workers = 1
    /\ Len(pdf_files) = 2
    /\ task_state[1] = "Completed"
    /\ task_state[2] = "Running"

\* C8: the overall ratio is exactly 0 when total_original_size is 0, and
\* line 179 never divides by zero.
C8_OverallRatioZero ==
    /\ overall_compression # ZeroDivisionError
    /\ (pc = "done" /\ pdf_files # << >>) =>
         /\ summary_emitted = 1
         /\ total_original_size = 0 => overall_compression = Zero

C8_Witness ==
    /\ summary_emitted = 1
    /\ total_original_size = 0
    /\ failed_compressions = 2

\* C9: with no matching file the run logs the condition and returns: no
\* task, no thread, no call, no counter changed, no summary.
C9_NoFilesCleanReturn ==
    (pc # "start" /\ PYMUPDF_AVAILABLE /\ PIL_AVAILABLE /\ input_dir = << >>) =>
      /\ pc = "done"
      /\ no_files_logged
      /\ next_submit = 1
      /\ work_queue = << >>
      /\ num_threads = 0
      /\ yielded = << >>
      /\ successful_compressions = 0
      /\ failed_compressions = 0
      /\ total_original_size = 0
      /\ total_compressed_size = 0
      /\ summary_emitted = 0

C9_Witness ==
    /\ pc = "done"
    /\ PYMUPDF_AVAILABLE
    /\ PIL_AVAILABLE
    /\ input_dir = << >>
    /\ no_files_logged

\* C10: a result with success = True has original_size > 0 and
\* compression_ratio = (1 - compressed_size / original_size) * 100; a task
\* whose input has size 0 ends with success = False, compressed_size 0 and
\* compression_ratio 0, also when doc.save wrote the output file.
C10_PerFileResult ==
    \A f \in Files :
      future[f].kind = "result" =>
        /\ future[f].success =>
             /\ future[f].original_size > 0
             /\ future[f].compression_ratio[2] > 0
             /\ future[f].compression_ratio[1] * future[f].original_size
                  = (future[f].original_size - future[f].compressed_size)
                      * 100 * future[f].compression_ratio[2]
        /\ (pdf_files[f].exists /\ get_file_size(pdf_files[f]) = 0) =>
             /\ ~future[f].success
             /\ future[f].compressed_size = 0
             /\ future[f].compression_ratio = Zero

C10_Witness ==
    /\ Len(pdf_files) = 2
    /\ pdf_files[1] = File(0)
    /\ output_dir[1].exists
    /\ future[1].kind = "result"
    /\ future[1].error = "ZeroDivisionError"
    /\ future[2].kind = "result"
    /\ future[2].success
    /\ future[2].compression_ratio[1] < 0

=============================================================================
